---- MODULE Spec2Model ----
(***************************************************************************)
(* IceTea: conversion of a SQL script to a spreadsheet (sql_to_xlsx.py)    *)
(* and back (xlsx_to_sql.py).                                              *)
(*                                                                         *)
(* Python values are records [t, v]: t is the Python type and v the text   *)
(* str() gives for the value.  Text that the programs build or take apart  *)
(* (cell comments, the SQL script) is a sequence of tokens or lines.       *)
(***************************************************************************)
EXTENDS Integers, Sequences, FiniteSets, TLC

\* ------------------------------------------------------------------ bounds
MaxSheets == 2
MaxFields == 2
MaxRows == 2

\* ------------------------------------------------------------ Python values
None == [t |-> "none", v |-> ""]
PStr(s) == [t |-> "str", v |-> s]
PInt(s) == [t |-> "int", v |-> s]
PBool(b) == [t |-> "bool", v |-> IF b THEN "True" ELSE "False"]

\* Python truth value of a cell value or a JSON value
Truthy(x) ==
  CASE x.t = "none" -> FALSE
    [] x.t = "int" -> x.v # "0"
    [] x.t = "str" -> x.v # ""
    [] x.t = "bool" -> x.v = "True"
    [] OTHER -> TRUE

\* str(value) and f"{value}"
PyStr(x) == IF x.t = "none" THEN "None" ELSE x.v

Take(s, n) == SubSeq(s, 1, IF n < Len(s) THEN n ELSE Len(s))
Drop(s, n) == SubSeq(s, n + 1, Len(s))

\* --------------------------------------------------------------- JSON text
\* A JSON text is a sequence of tokens.
Punct(c) == [t |-> "punct", v |-> c]
JStr(s) == [t |-> "jstr", v |-> s]
JLit(s) == [t |-> "jlit", v |-> s]
JNum(s) == [t |-> "jnum", v |-> s]
Text(s) == [t |-> "text", v |-> s]

\* json.dumps of one value
DumpsValue(x) ==
  CASE x.t = "str" -> JStr(x.v)
    [] x.t = "bool" -> JLit(IF x.v = "True" THEN "true" ELSE "false")
    [] x.t = "int" -> JNum(x.v)
    [] OTHER -> JLit("null")

DumpsPair(k, x) == <<JStr(k), Punct(":"), DumpsValue(x)>>

\* json.dumps of {"type": .., "not_null": .., "pk": ..}, keys in insertion order
Dumps(metadata) ==
  <<Punct("{")>> \o DumpsPair("type", metadata["type"]) \o <<Punct(",")>>
    \o DumpsPair("not_null", metadata["not_null"]) \o <<Punct(",")>>
    \o DumpsPair("pk", metadata["pk"]) \o <<Punct("}")>>

\* the Python value of one JSON value token
LoadsValue(tok) ==
  CASE tok.t = "jstr" -> PStr(tok.v)
    [] tok.t = "jnum" -> PInt(tok.v)
    [] tok.t = "jlit" /\ tok.v = "true" -> PBool(TRUE)
    [] tok.t = "jlit" /\ tok.v = "false" -> PBool(FALSE)
    [] OTHER -> None

IsValueToken(tok) ==
  \/ tok.t \in {"jstr", "jnum"}
  \/ tok.t = "jlit" /\ tok.v \in {"true", "false", "null"}

\* the members between the braces: key : value (, key : value)*
WellFormedMembers(m) ==
  \/ Len(m) = 0
  \/ /\ Len(m) % 4 = 3
     /\ \A i \in 1..Len(m) :
          CASE i % 4 = 1 -> m[i].t = "jstr"
            [] i % 4 = 2 -> m[i] = Punct(":")
            [] i % 4 = 3 -> IsValueToken(m[i])
            [] OTHER -> m[i] = Punct(",")

\* the dict of the members; a repeated key keeps its last value
MembersDict(m) ==
  LET n == (Len(m) + 1) \div 4
      keys == {m[4 * (j - 1) + 1].v : j \in 1..n}
      last(k) == CHOOSE j \in 1..n :
                   /\ m[4 * (j - 1) + 1].v = k
                   /\ \A j2 \in 1..n : m[4 * (j2 - 1) + 1].v = k => j2 <= j
  IN [k \in keys |-> LoadsValue(m[4 * (last(k) - 1) + 3])]

\* json.loads: ok = FALSE stands for json.JSONDecodeError being raised
Loads(toks) ==
  IF /\ Len(toks) >= 2
     /\ toks[1] = Punct("{")
     /\ toks[Len(toks)] = Punct("}")
     /\ WellFormedMembers(SubSeq(toks, 2, Len(toks) - 1))
  THEN [ok |-> TRUE, value |-> MembersDict(SubSeq(toks, 2, Len(toks) - 1))]
  ELSE [ok |-> FALSE, value |-> <<>>]

\* ------------------------------------------------------- xlsx_to_sql.py
COMMENT_PREFIX == <<Text("AUTOGENERATED, DO NOT EDIT!\n")>>
DEFAULT_METADATA ==
  [type |-> PStr("VARCHAR(255)"), not_null |-> PBool(FALSE), pk |-> PInt("0")]

NoComment == [has |-> FALSE, text |-> <<>>]
Comment(text) == [has |-> TRUE, text |-> text]
EmptyCell == [value |-> None, comment |-> NoComment]

\* sheet.cell(row=1, column=column); a cell that is absent reads as empty
HeaderCellAt(sheet, column) ==
  IF column <= Len(sheet.header) THEN sheet.header[column] ELSE EmptyCell

\* sheet.cell(row=row, column=column).value for a data row (row >= 2)
CellValue(sheet, row, column) ==
  IF row - 1 <= Len(sheet.rows) /\ column <= Len(sheet.rows[row - 1])
  THEN sheet.rows[row - 1][column]
  ELSE None

Max(a, b) == IF a > b THEN a ELSE b

RECURSIVE MaxRowLen(_)
MaxRowLen(rows) ==
  IF rows = <<>> THEN 0 ELSE Max(Len(Head(rows)), MaxRowLen(Tail(rows)))

\* sheet.max_column
MaxColumn(sheet) == Max(Len(sheet.header), MaxRowLen(sheet.rows))

\* lines of the SQL script
BeginLine == [kind |-> "BEGIN TRANSACTION", table |-> <<>>, name |-> "", type |-> "",
              quoted |-> FALSE, notnull |-> FALSE, values |-> <<>>]
CommitLine == [BeginLine EXCEPT !.kind = "COMMIT"]
CreateLine(table_name) ==
  [BeginLine EXCEPT !.kind = "CREATE TABLE", !.table = table_name]
ColumnLine(field_name, quoted, type, notnull) ==
  [BeginLine EXCEPT !.kind = "column", !.name = field_name, !.quoted = quoted,
                    !.type = type, !.notnull = notnull]
PrimaryKeyLine(field_name) ==
  [BeginLine EXCEPT !.kind = "PRIMARY KEY", !.name = field_name]
CloseLine == [BeginLine EXCEPT !.kind = ");"]
InsertLine(table_name, values) ==
  [BeginLine EXCEPT !.kind = "INSERT INTO", !.table = table_name, !.values = values]

NoError == [kind |-> "", msg |-> ""]
XLSXParseError(msg) == [kind |-> "XLSXParseError", msg |-> msg]
JSONDecodeError == [kind |-> "JSONDecodeError", msg |-> ""]
KeyError(key) == [kind |-> "KeyError", msg |-> key]

\* the header reading loop, from `column` on
RECURSIVE ReadHeaderFrom(_, _, _, _)
ReadHeaderFrom(sheet, column, fields, field_metadata) ==
  LET cell == HeaderCellAt(sheet, column)
      comment_text == cell.comment.text
      prefix == Take(comment_text, Len(COMMENT_PREFIX))
      suffix == Drop(comment_text, Len(COMMENT_PREFIX))
      loaded == Loads(suffix)
  IN IF ~Truthy(cell.value)
     THEN [error |-> NoError, fields |-> fields, field_metadata |-> field_metadata]
     ELSE IF cell.comment.has
     THEN IF prefix # COMMENT_PREFIX
          THEN [error |-> XLSXParseError("Comment verification failed"),
                fields |-> Append(fields, cell.value),
                field_metadata |-> field_metadata]
          ELSE IF ~loaded.ok
          THEN [error |-> JSONDecodeError,
                fields |-> Append(fields, cell.value),
                field_metadata |-> field_metadata]
          ELSE ReadHeaderFrom(sheet, column + 1, Append(fields, cell.value),
                              Append(field_metadata, loaded.value))
     ELSE ReadHeaderFrom(sheet, column + 1, Append(fields, cell.value),
                         Append(field_metadata, DEFAULT_METADATA))

ReadHeader(sheet) == ReadHeaderFrom(sheet, 1, <<>>, <<>>)

\* the loop that adds the fields to the CREATE TABLE block, from `column` on
RECURSIVE AddFieldsFrom(_, _, _, _, _)
AddFieldsFrom(fields, field_metadata, column, primary_key_field, lines) ==
  IF column > Len(fields)
  THEN [error |-> NoError, primary_key_field |-> primary_key_field, lines |-> lines]
  ELSE
    LET field_name == fields[column]
        metadata == field_metadata[column]
        keys == DOMAIN metadata
    IN IF "pk" \notin keys
       THEN [error |-> KeyError("pk"), primary_key_field |-> primary_key_field,
             lines |-> lines]
       ELSE IF Truthy(metadata["pk"]) /\ primary_key_field # None
       THEN [error |-> XLSXParseError("multiple primary key fields detected!"),
             primary_key_field |-> primary_key_field, lines |-> lines]
       ELSE
         LET pkf == IF Truthy(metadata["pk"]) THEN field_name ELSE primary_key_field
             quoted == pkf # field_name
         IN IF "type" \notin keys
            THEN [error |-> KeyError("type"), primary_key_field |-> pkf, lines |-> lines]
            ELSE IF "not_null" \notin keys
            THEN [error |-> KeyError("not_null"), primary_key_field |-> pkf,
                  lines |-> lines]
            ELSE AddFieldsFrom(fields, field_metadata, column + 1, pkf,
                   Append(lines, ColumnLine(PyStr(field_name), quoted,
                                            PyStr(metadata["type"]),
                                            Truthy(metadata["not_null"]))))

\* CreateTable without the check that a primary key field was found
CreateTableNoKeyCheck(table_name, fields, field_metadata) ==
  LET added == AddFieldsFrom(fields, field_metadata, 1, None, <<CreateLine(table_name)>>)
  IN IF added.error # NoError
     THEN [error |-> added.error, lines |-> added.lines]
     ELSE [error |-> NoError,
           lines |-> added.lines
                       \o <<PrimaryKeyLine(PyStr(added.primary_key_field)), CloseLine>>]

\* the CREATE TABLE block of one sheet
CreateTable(table_name, fields, field_metadata) ==
  LET added == AddFieldsFrom(fields, field_metadata, 1, None, <<CreateLine(table_name)>>)
  IN IF added.error # NoError
     THEN [error |-> added.error, lines |-> added.lines]
     ELSE IF added.primary_key_field # None
     THEN [error |-> NoError,
           lines |-> added.lines
                       \o <<PrimaryKeyLine(PyStr(added.primary_key_field)), CloseLine>>]
     ELSE [error |-> XLSXParseError("no primary key field detected!"),
           lines |-> added.lines]

\* not any(cell.value for cell in row_obj), row_obj the cells of the row
IsSkippedRow(sheet, row) ==
  ~ \E column \in 1..MaxColumn(sheet) : Truthy(CellValue(sheet, row, column))

\* the values list of one row: None becomes '', everything becomes a string
RowValues(sheet, row, fields) ==
  [column \in 1..Len(fields) |->
     LET value == CellValue(sheet, row, column)
     IN IF value = None THEN "" ELSE PyStr(value)]

\* the record loop, from sheet row `row` on (row 1 is the header)
RECURSIVE InsertRecordsFrom(_, _, _, _)
InsertRecordsFrom(sheet, table_name, fields, row) ==
  IF row > Len(sheet.rows) + 1
  THEN <<>>
  ELSE IF IsSkippedRow(sheet, row)
  THEN InsertRecordsFrom(sheet, table_name, fields, row + 1)
  ELSE <<InsertLine(table_name, RowValues(sheet, row, fields))>>
         \o InsertRecordsFrom(sheet, table_name, fields, row + 1)

\* ConvertOneSheet with the records emitted before the CREATE TABLE block
ConvertOneSheetRecordsFirst(sheet) ==
  LET table_name == sheet.title
      header == ReadHeader(sheet)
      created == CreateTable(table_name, header.fields, header.field_metadata)
  IN IF header.error # NoError
     THEN [error |-> header.error, lines |-> <<>>]
     ELSE IF created.error # NoError
     THEN [error |-> created.error, lines |-> created.lines]
     ELSE [error |-> NoError,
           lines |-> InsertRecordsFrom(sheet, table_name, header.fields, 2)
                       \o created.lines]

\* one iteration of the sheet loop
ConvertOneSheet(sheet) ==
  LET table_name == sheet.title
      header == ReadHeader(sheet)
      created == CreateTable(table_name, header.fields, header.field_metadata)
  IN IF header.error # NoError
     THEN [error |-> header.error, lines |-> <<>>]
     ELSE IF created.error # NoError
     THEN [error |-> created.error, lines |-> created.lines]
     ELSE [error |-> NoError,
           lines |-> created.lines
                       \o InsertRecordsFrom(sheet, table_name, header.fields, 2)]

\* ------------------------------------------------------------ the state
VARIABLES
  pc,            \* position of the xlsx_to_sql.py run
  DELETE_XLSX,   \* the --delete-xlsx / --preserve-xlsx option of xlsx_to_sql.py
  workbook,      \* the worksheets of the workbook xlsx_to_sql.py loaded
  sheet_count,   \* how many worksheets the loop of xlsx_to_sql.py has been through
  sql_script,    \* the lines of the SQL script xlsx_to_sql.py has built so far
  error,         \* the exception that ended the xlsx_to_sql.py run
  output_file,   \* the SQL file xlsx_to_sql.py writes
  xlsx_file,     \* the XLSX file: written by sql_to_xlsx, read by xlsx_to_sql.py
  fpc,           \* position of the sql_to_xlsx run
  script,        \* the SQL script sql_to_xlsx reads, as what executing it gives
  handles,       \* the resources sql_to_xlsx holds open
  sqlite_master, \* the catalog of the in-memory database
  tables,        \* the names the table query returned
  sheets,        \* the worksheets of the workbook sql_to_xlsx builds
  sheet_target_names, \* the title asked for each worksheet
  table_names,   \* worksheet title -> table name
  description,   \* workbook.properties.description
  ferror         \* the exception that ended the sql_to_xlsx run

rvars == <<pc, DELETE_XLSX, workbook, sheet_count, sql_script, error, output_file>>
fvars == <<fpc, script, handles, sqlite_master, tables, sheets, sheet_target_names,
           table_names, description, ferror>>
vars == <<rvars, fvars, xlsx_file>>

NotWritten == [written |-> FALSE, text |-> <<>>]
NoFile == [exists |-> FALSE, sheets |-> <<>>, description |-> <<>>]

\* ------------------------------------------------- xlsx_to_sql.py, the run
\* load the workbook and start the script
LoadWorkbook ==
  /\ pc = "start"
  /\ IF xlsx_file.exists
     THEN /\ pc' = "loop"
          /\ workbook' = xlsx_file.sheets
          /\ sql_script' = <<BeginLine>>
          /\ error' = error
     ELSE /\ pc' = "failed"
          /\ error' = [kind |-> "FileNotFoundError", msg |-> ""]
          /\ UNCHANGED <<workbook, sql_script>>
  /\ UNCHANGED <<DELETE_XLSX, sheet_count, output_file, xlsx_file, fvars>>

\* ConvertSheet going on to the next worksheet after an error
ConvertSheetContinue ==
  /\ pc = "loop"
  /\ sheet_count < Len(workbook)
  /\ LET converted == ConvertOneSheet(workbook[sheet_count + 1])
     IN /\ sheet_count' = sheet_count + 1
        /\ sql_script' = sql_script \o converted.lines
        /\ error' = converted.error
        /\ pc' = "loop"
  /\ UNCHANGED <<DELETE_XLSX, workbook, output_file, xlsx_file, fvars>>

\* one iteration of the worksheet loop
ConvertSheet ==
  /\ pc = "loop"
  /\ sheet_count < Len(workbook)
  /\ LET converted == ConvertOneSheet(workbook[sheet_count + 1])
     IN /\ sheet_count' = sheet_count + 1
        /\ sql_script' = sql_script \o converted.lines
        /\ error' = converted.error
        /\ pc' = IF converted.error # NoError THEN "failed" ELSE "loop"
  /\ UNCHANGED <<DELETE_XLSX, workbook, output_file, xlsx_file, fvars>>

\* after the last worksheet: end the script and save the SQL file
WriteOutput ==
  /\ pc = "loop"
  /\ sheet_count = Len(workbook)
  /\ pc' = "written"
  /\ sql_script' = Append(sql_script, CommitLine)
  /\ output_file' = [written |-> TRUE, text |-> Append(sql_script, CommitLine)]
  /\ UNCHANGED <<DELETE_XLSX, workbook, sheet_count, error, xlsx_file, fvars>>

\* delete the XLSX file when asked to
DeleteXlsx ==
  /\ pc = "written"
  /\ pc' = "done"
  /\ xlsx_file' = IF DELETE_XLSX THEN NoFile ELSE xlsx_file
  /\ UNCHANGED <<DELETE_XLSX, workbook, sheet_count, sql_script, error, output_file,
                 fvars>>

\* --------------------------------------------- workbooks given to the run
Digits == <<"1", "2", "3", "4", "5", "6", "7", "8", "9">>

FieldComment(type, not_null, pk) ==
  Comment(COMMENT_PREFIX
            \o Dumps([type |-> PStr(type), not_null |-> PBool(not_null), pk |-> PInt(pk)]))

CellIdPk == [value |-> PStr("id"), comment |-> FieldComment("INTEGER", TRUE, "1")]
CellXGood == [value |-> PStr("x"), comment |-> FieldComment("TEXT", FALSE, "0")]
CellXDefault == [value |-> PStr("x"), comment |-> NoComment]
CellIdDefault == [value |-> PStr("id"), comment |-> NoComment]
CellBadPrefix ==
  [value |-> PStr("x"),
   comment |-> Comment(<<Text("AUTOGENERATED, DO NOT EDIT!")>>
                         \o Dumps([type |-> PStr("TEXT"), not_null |-> PBool(FALSE),
                                   pk |-> PInt("0")]))]
CellMalformed ==
  [value |-> PStr("x"),
   comment |-> Comment(COMMENT_PREFIX \o <<Punct("{"), JStr("type"), Punct(":")>>)]
CellMissingPk ==
  [value |-> PStr("x"),
   comment |-> Comment(COMMENT_PREFIX \o <<Punct("{")>>
                         \o DumpsPair("type", PStr("TEXT")) \o <<Punct(",")>>
                         \o DumpsPair("not_null", PBool(FALSE)) \o <<Punct("}")>>)]
CellMissingType ==
  [value |-> PStr("x"),
   comment |-> Comment(COMMENT_PREFIX \o <<Punct("{")>>
                         \o DumpsPair("not_null", PBool(FALSE)) \o <<Punct(",")>>
                         \o DumpsPair("pk", PInt("0")) \o <<Punct("}")>>)]

HeaderCells ==
  {EmptyCell, CellIdPk, CellXGood, CellXDefault, CellIdDefault, CellBadPrefix,
   CellMalformed, CellMissingPk, CellMissingType}

Headers == UNION {[1..n -> HeaderCells] : n \in 0..MaxFields}

BlankRow == [column \in 1..MaxFields |-> None]
ZeroRow == <<PInt("0")>>
DataRow == <<PInt("7"), PStr("a")>>
WideRow == [column \in 1..(MaxFields + 1) |-> IF column <= MaxFields THEN None ELSE PStr("z")]

RowLists == UNION {[1..n -> {BlankRow, ZeroRow, DataRow, WideRow}] : n \in 0..MaxRows}

SheetTitle(i) == <<"t", Digits[i]>>

PlainHeader == <<CellIdPk, CellXGood>>

\* the worksheets before the last one: the plain header with no record, one
\* record, or a blank row and a record
PlainSheets(i) ==
  {[title |-> SheetTitle(i), header |-> PlainHeader, rows |-> r] :
     r \in {<<>>, <<DataRow>>, <<BlankRow, DataRow>>}}

Sheet(i, header, rows) == [title |-> SheetTitle(i), header |-> header, rows |-> rows]

\* n plain worksheets, at positions 1..n
RECURSIVE PlainPrefixes(_)
PlainPrefixes(n) ==
  IF n = 0 THEN {<<>>}
  ELSE {Append(p, s) : p \in PlainPrefixes(n - 1), s \in PlainSheets(n)}

XlsxFile(w) == [exists |-> TRUE, sheets |-> w, description |-> <<>>]

\* the XLSX file given to xlsx_to_sql.py: plain worksheets, then a last worksheet
\* that has any header with at most one record, or the plain header with any records
InitWorkbook ==
  \E n \in 1..MaxSheets : \E p \in PlainPrefixes(n - 1) :
    \/ \E h \in Headers : \E r \in {<<>>, <<DataRow>>} :
         xlsx_file = XlsxFile(Append(p, Sheet(n, h, r)))
    \/ \E r \in RowLists : xlsx_file = XlsxFile(Append(p, Sheet(n, PlainHeader, r)))

\* --------------------------------------------------------- sql_to_xlsx.py
AUTOGEN_PREFIX == <<Text("AUTOGENERATED, DO NOT EDIT!\n")>>
SheetNameLimit == 29

\* workbook.sheetnames
SheetNames(ws) == {ws[i].title : i \in 1..Len(ws)}

\* the title workbook.create_sheet(value) gives the new worksheet: the title
\* asked for, or that title with a numeric suffix when it is already in use
CreateSheetTitle(sheetnames, value) ==
  IF value \notin sheetnames
  THEN value
  ELSE LET counts == {k \in 1..Len(Digits) : (value \o <<Digits[k]>>) \in sheetnames}
           highest == IF counts = {} THEN 0
                      ELSE CHOOSE k \in counts : \A k2 \in counts : k2 <= k
       IN value \o <<Digits[highest + 1]>>

\* the header cell of one row of PRAGMA table_info
FieldHeaderCell(field) ==
  LET metadata == [type |-> field.type,
                   not_null |-> PBool(Truthy(field.notnull)),
                   pk |-> PInt(field.pk.v)]
      metadata_string == AUTOGEN_PREFIX \o Dumps(metadata)
  IN [value |-> field.name, comment |-> Comment(metadata_string)]

\* the catalog entry of a name
Entry(catalog, name) ==
  catalog[CHOOSE i \in 1..Len(catalog) : catalog[i].name = name]

\* SELECT name FROM sqlite_master WHERE type='table'
RECURSIVE SelectTableNames(_)
SelectTableNames(catalog) ==
  IF catalog = <<>> THEN <<>>
  ELSE (IF Head(catalog).type = "table" THEN <<Head(catalog).name>> ELSE <<>>)
         \o SelectTableNames(Tail(catalog))

\* the worksheet of one table: header line, then the records
TableSheet(title, entry) ==
  [title |-> title,
   header |-> [i \in 1..Len(entry.columns) |-> FieldHeaderCell(entry.columns[i])],
   rows |-> entry.rows]

OpenInput ==
  /\ fpc = "start"
  /\ fpc' = "opened"
  /\ handles' = handles \cup {"input_file"}
  /\ UNCHANGED <<script, sqlite_master, tables, sheets, sheet_target_names, table_names,
                 description, ferror, xlsx_file, rvars>>

\* f.read(), and the end of the with block
ReadInput ==
  /\ fpc = "opened"
  /\ fpc' = "read"
  /\ handles' = handles \ {"input_file"}
  /\ UNCHANGED <<script, sqlite_master, tables, sheets, sheet_target_names, table_names,
                 description, ferror, xlsx_file, rvars>>

Connect ==
  /\ fpc = "read"
  /\ fpc' = "connected"
  /\ handles' = handles \cup {"conn"}
  /\ sqlite_master' = <<>>
  /\ UNCHANGED <<script, tables, sheets, sheet_target_names, table_names, description,
                 ferror, xlsx_file, rvars>>

\* cur.executescript(sql_script): raises on a script the engine rejects
ExecuteScript ==
  /\ fpc = "connected"
  /\ IF script.valid
     THEN /\ fpc' = "executed"
          /\ sqlite_master' = script.catalog
          /\ ferror' = ferror
     ELSE /\ fpc' = "failed"
          /\ ferror' = "sqlite3.Error"
          /\ sqlite_master' = sqlite_master
  /\ UNCHANGED <<script, handles, tables, sheets, sheet_target_names, table_names,
                 description, xlsx_file, rvars>>

\* the table query, the new workbook without its default worksheet, table_names = {}
ListTables ==
  /\ fpc = "executed"
  /\ fpc' = "loop"
  /\ tables' = SelectTableNames(sqlite_master)
  /\ sheets' = <<>>
  /\ sheet_target_names' = <<>>
  /\ table_names' = <<>>
  /\ UNCHANGED <<script, handles, sqlite_master, description, ferror, xlsx_file, rvars>>

\* ConvertTable linking the title asked for, not the title the worksheet got
ConvertTableKeyedByTarget ==
  /\ fpc = "loop"
  /\ Len(sheets) < Len(tables)
  /\ LET table_name == tables[Len(sheets) + 1]
         sheet_target_name == Take(table_name, SheetNameLimit)
         sheet_name == CreateSheetTitle(SheetNames(sheets), sheet_target_name)
     IN /\ sheet_target_names' = Append(sheet_target_names, sheet_target_name)
        /\ table_names' = [t \in (DOMAIN table_names) \cup {sheet_target_name} |->
                             IF t = sheet_target_name THEN table_name
                             ELSE table_names[t]]
        /\ sheets' = Append(sheets, TableSheet(sheet_name, Entry(sqlite_master, table_name)))
  /\ UNCHANGED <<fpc, script, handles, sqlite_master, tables, description, ferror,
                 xlsx_file, rvars>>

\* one iteration of the table loop
ConvertTable ==
  /\ fpc = "loop"
  /\ Len(sheets) < Len(tables)
  /\ LET table_name == tables[Len(sheets) + 1]
         sheet_target_name == Take(table_name, SheetNameLimit)
         sheet_name == CreateSheetTitle(SheetNames(sheets), sheet_target_name)
     IN /\ sheet_target_names' = Append(sheet_target_names, sheet_target_name)
        /\ table_names' = [t \in (DOMAIN table_names) \cup {sheet_name} |->
                             IF t = sheet_name THEN table_name ELSE table_names[t]]
        /\ sheets' = Append(sheets, TableSheet(sheet_name, Entry(sqlite_master, table_name)))
  /\ UNCHANGED <<fpc, script, handles, sqlite_master, tables, description, ferror,
                 xlsx_file, rvars>>

\* after the last table: the workbook description
SetDescription ==
  /\ fpc = "loop"
  /\ Len(sheets) = Len(tables)
  /\ fpc' = "described"
  /\ description' = [prefix |-> AUTOGEN_PREFIX, table_names |-> table_names]
  /\ UNCHANGED <<script, handles, sqlite_master, tables, sheets, sheet_target_names,
                 table_names, ferror, xlsx_file, rvars>>

\* workbook.save(OUTPUT_FILE); the function returns
Save ==
  /\ fpc = "described"
  /\ fpc' = "done"
  /\ xlsx_file' = [exists |-> TRUE, sheets |-> sheets, description |-> description]
  /\ UNCHANGED <<script, handles, sqlite_master, tables, sheets, sheet_target_names,
                 table_names, description, ferror, rvars>>

\* ------------------------------------------- scripts given to sql_to_xlsx
MaxEntries == 3

Chars(n, c) == [i \in 1..n |-> c]
ExactName == Chars(SheetNameLimit, "a")
LongNameB == Chars(SheetNameLimit, "a") \o Chars(6, "b")
LongNameC == Chars(SheetNameLimit, "a") \o <<"c">>
ShortName == <<"t">>
OtherName == <<"u">>
InternalPrefix == <<"s", "q", "l", "i", "t", "e", "_">>
SqliteSequence == InternalPrefix \o <<"s", "e", "q", "u", "e", "n", "c", "e">>
AutoIndex == InternalPrefix \o <<"a", "u", "t", "o", "i", "n", "d", "e", "x">>

\* a row of PRAGMA table_info: name, type, notnull, pk
Field(name, type, notnull, pk) ==
  [name |-> PStr(name), type |-> PStr(type), notnull |-> PInt(notnull), pk |-> PInt(pk)]

IdField == Field("id", "INTEGER", "1", "1")
XField == Field("x", "TEXT", "0", "0")

TableEntry(name, columns, rows) ==
  [type |-> "table", name |-> name, columns |-> columns, rows |-> rows]

\* the table the engine keeps for AUTOINCREMENT columns
SequenceEntry ==
  TableEntry(SqliteSequence,
             <<Field("name", "", "0", "0"), Field("seq", "", "0", "0")>>,
             <<<<PStr("t"), PInt("1")>>>>)

\* the index the engine makes for a primary key
IndexEntry == [type |-> "index", name |-> AutoIndex, columns |-> <<>>, rows |-> <<>>]

UserEntries ==
  {TableEntry(n, <<IdField, XField>>, r) :
     n \in {ExactName, LongNameB, LongNameC, ShortName},
     r \in {<<>>, <<<<PInt("1"), PStr("a")>>>>}}

\* catalogs of n entries with distinct names
RECURSIVE Catalogs(_)
Catalogs(n) ==
  IF n = 0 THEN {<<>>}
  ELSE {Append(c, e) : c \in Catalogs(n - 1),
                       e \in UserEntries \cup {SequenceEntry, IndexEntry}}

DistinctNames(catalog) ==
  \A i, j \in 1..Len(catalog) : catalog[i].name = catalog[j].name => i = j

\* ------------------------------------------------------ the specifications
Forward ==
  \/ OpenInput
  \/ ReadInput
  \/ Connect
  \/ ExecuteScript
  \/ ListTables
  \/ ConvertTable
  \/ SetDescription
  \/ Save

Reverse ==
  \/ LoadWorkbook
  \/ ConvertSheet
  \/ WriteOutput
  \/ DeleteXlsx

IdleReverse ==
  /\ pc = "idle"
  /\ DELETE_XLSX = FALSE
  /\ workbook = <<>>
  /\ sheet_count = 0
  /\ sql_script = <<>>
  /\ error = NoError
  /\ output_file = NotWritten

InitReverse ==
  /\ pc = "start"
  /\ DELETE_XLSX \in BOOLEAN
  /\ workbook = <<>>
  /\ sheet_count = 0
  /\ sql_script = <<>>
  /\ error = NoError
  /\ output_file = NotWritten

IdleForward ==
  /\ fpc = "idle"
  /\ script = [valid |-> TRUE, catalog |-> <<>>]
  /\ handles = {}
  /\ sqlite_master = <<>>
  /\ tables = <<>>
  /\ sheets = <<>>
  /\ sheet_target_names = <<>>
  /\ table_names = <<>>
  /\ description = <<>>
  /\ ferror = ""

InitForward ==
  /\ fpc = "start"
  /\ handles = {}
  /\ sqlite_master = <<>>
  /\ tables = <<>>
  /\ sheets = <<>>
  /\ sheet_target_names = <<>>
  /\ table_names = <<>>
  /\ description = <<>>
  /\ ferror = ""
  /\ xlsx_file = NoFile

\* xlsx_to_sql.py on a given XLSX file
Init ==
  /\ InitReverse
  /\ IdleForward
  /\ InitWorkbook

Next == Reverse

Spec == Init /\ [][Next]_vars

\* sql_to_xlsx on a given SQL script
InitFwd ==
  /\ IdleReverse
  /\ InitForward
  /\ \E n \in 0..MaxEntries : \E c \in Catalogs(n) :
       /\ DistinctNames(c)
       /\ \E valid \in BOOLEAN : script = [valid |-> valid, catalog |-> c]

NextFwd == Forward

SpecFwd == InitFwd /\ [][NextFwd]_vars

\* sql_to_xlsx on a script of tables with one primary key column each, then
\* xlsx_to_sql.py on the XLSX file it wrote
KeyedColumns == {<<IdField>>, <<IdField, XField>>, <<XField, IdField>>}

ScalarValues == {None, PInt("0"), PStr("a")}

RowsOfWidth(w) == UNION {[1..n -> [1..w -> ScalarValues]] : n \in 0..MaxRows}

PlainTable == TableEntry(OtherName, <<IdField, XField>>, <<<<PInt("1"), PStr("a")>>>>)

InitRT ==
  /\ InitReverse
  /\ InitForward
  /\ \E first \in {<<>>, <<PlainTable>>} : \E columns \in KeyedColumns :
       \E rows \in RowsOfWidth(Len(columns)) :
         script = [valid |-> TRUE,
                   catalog |-> first \o <<TableEntry(ShortName, columns, rows)>>]

NextRT ==
  \/ Forward
  \/ fpc = "done" /\ Reverse

SpecRT == InitRT /\ [][NextRT]_vars

\* ======================================================================
\* Properties of xlsx_to_sql.py (specification Spec)
\* ======================================================================

\* the worksheets of the XLSX file the run was given
Document == IF pc = "start" THEN xlsx_file.sheets ELSE workbook

IsEmptyValue(value) == value \in {None, PStr("")}

\* the number of header cells before the first empty one
FieldCount(sheet) ==
  CHOOSE n \in 0..Len(sheet.header) :
    /\ \A i \in 1..n : ~IsEmptyValue(sheet.header[i].value)
    /\ n = Len(sheet.header) \/ IsEmptyValue(sheet.header[n + 1].value)

Annotated(cell) == cell.comment.has

PrefixOk(cell) ==
  /\ Len(cell.comment.text) >= Len(COMMENT_PREFIX)
  /\ SubSeq(cell.comment.text, 1, Len(COMMENT_PREFIX)) = COMMENT_PREFIX

Remainder(cell) ==
  SubSeq(cell.comment.text, Len(COMMENT_PREFIX) + 1, Len(cell.comment.text))

\* the annotation is the prefix followed by a JSON object with the three keys
WellFormed(cell) ==
  /\ PrefixOk(cell)
  /\ Loads(Remainder(cell)).ok
  /\ {"type", "not_null", "pk"} \subseteq DOMAIN Loads(Remainder(cell)).value

AllDecode(sheet) ==
  \A i \in 1..FieldCount(sheet) :
    Annotated(sheet.header[i]) => WellFormed(sheet.header[i])

\* the header fields flagged as primary key
PkFields(sheet) ==
  {i \in 1..FieldCount(sheet) :
     /\ Annotated(sheet.header[i])
     /\ WellFormed(sheet.header[i])
     /\ Truthy(Loads(Remainder(sheet.header[i])).value["pk"])}

\* the run went through worksheet k without an error
Converted(k) == k <= sheet_count /\ ~(k = sheet_count /\ pc = "failed")

\* the run ended with an error in worksheet k
FailedAt(k) == k = sheet_count /\ pc = "failed"

CreateAt(text) == {i \in 1..Len(text) : text[i].kind = "CREATE TABLE"}

\* the lines from the k-th CREATE TABLE to the next one (or to COMMIT)
Block(text, k) ==
  LET a == CHOOSE i \in CreateAt(text) :
             Cardinality({j \in CreateAt(text) : j <= i}) = k
      later == {j \in CreateAt(text) : j > a}
      b == IF later # {}
           THEN (CHOOSE j \in later : \A j2 \in later : j <= j2) - 1
           ELSE IF text[Len(text)].kind = "COMMIT" THEN Len(text) - 1 ELSE Len(text)
  IN SubSeq(text, a, b)

IsInsert(line) == line.kind = "INSERT INTO"
InsertsOf(block) == SelectSeq(block, IsInsert)

\* C2: for every worksheet whose header fields all decode: with no field or with
\* two or more fields flagged as primary key the run fails with XLSXParseError
\* (no / multiple primary key fields); with exactly one, the worksheet converts
\* and its CREATE TABLE block ends with PRIMARY KEY (<that field's name>).
C2_PrimaryKeyCardinality ==
  \A k \in 1..sheet_count :
    LET sheet == workbook[k]
        n == FieldCount(sheet)
        flagged == PkFields(sheet)
    IN AllDecode(sheet) =>
         /\ flagged = {} =>
              /\ FailedAt(k)
              /\ error = XLSXParseError("no primary key field detected!")
         /\ Cardinality(flagged) >= 2 =>
              /\ FailedAt(k)
              /\ error = XLSXParseError("multiple primary key fields detected!")
         /\ Cardinality(flagged) = 1 =>
              /\ Converted(k)
              /\ LET block == Block(sql_script, k)
                     i == CHOOSE i \in flagged : TRUE
                 IN /\ Len(block) >= n + 3
                    /\ block[n + 2] = PrimaryKeyLine(sheet.header[i].value.v)
                    /\ block[n + 3] = CloseLine

\* C2 witness: a first worksheet with one flagged field has converted and a second
\* one with two flagged fields has ended the run
C2_Witness ==
  /\ sheet_count = 2
  /\ AllDecode(workbook[1]) /\ Cardinality(PkFields(workbook[1])) = 1
  /\ AllDecode(workbook[2]) /\ Cardinality(PkFields(workbook[2])) = 2
  /\ pc = "failed"

\* the rows with at least one non-empty cell, as the INSERT lines they should give
RECURSIVE ExpectedInserts(_, _)
ExpectedInserts(sheet, r) ==
  IF r > Len(sheet.rows) THEN <<>>
  ELSE LET row == sheet.rows[r]
           values == [c \in 1..FieldCount(sheet) |->
                        IF c <= Len(row) /\ row[c] # None THEN row[c].v ELSE ""]
       IN (IF \E c \in 1..Len(row) : ~IsEmptyValue(row[c])
           THEN <<InsertLine(sheet.title, values)>> ELSE <<>>)
            \o ExpectedInserts(sheet, r + 1)

\* C3: for every converted worksheet the INSERT statements are, in row order,
\* those of the data rows that have at least one non-empty cell.
C3_BlankRowSkipping ==
  \A k \in 1..sheet_count :
    Converted(k) =>
      InsertsOf(Block(sql_script, k)) = ExpectedInserts(workbook[k], 1)

BadPrefix(sheet) ==
  \E i \in 1..FieldCount(sheet) :
    Annotated(sheet.header[i]) /\ ~PrefixOk(sheet.header[i])

FailsPkValidation(sheet) == AllDecode(sheet) /\ Cardinality(PkFields(sheet)) # 1

Offending(sheet) == BadPrefix(sheet) \/ FailsPkValidation(sheet)

\* C4: when a worksheet of the document has a header annotation without the
\* prefix or fails the primary key validation, the run never goes past that
\* worksheet, ends there with an error, never writes the SQL file and never
\* deletes the XLSX file.
C4_ErrorsAbort ==
  \A k \in 1..Len(Document) :
    Offending(Document[k]) =>
      /\ sheet_count <= k
      /\ sheet_count = k => pc = "failed"
      /\ pc \notin {"written", "done"}
      /\ ~output_file.written
      /\ xlsx_file.exists

\* C4 witness: the first worksheet converted, the second one ended the run
C4_Witness ==
  /\ pc = "failed"
  /\ sheet_count = 2
  /\ ~Offending(workbook[1])
  /\ Offending(workbook[2])
  /\ \E i \in 1..Len(sql_script) : sql_script[i].kind = "INSERT INTO"
  /\ ~output_file.written

MalformedRemainder(sheet) ==
  \E i \in 1..FieldCount(sheet) :
    /\ Annotated(sheet.header[i])
    /\ PrefixOk(sheet.header[i])
    /\ ~WellFormed(sheet.header[i])

\* C5: a worksheet with an annotation that has the prefix but whose remainder is
\* malformed JSON or lacks one of the keys ends the run with the error kind of a
\* failed prefix check, XLSXParseError.
C5_DecodeErrorKind ==
  \A k \in 1..sheet_count :
    MalformedRemainder(workbook[k]) /\ ~BadPrefix(workbook[k]) =>
      FailedAt(k) /\ error.kind = "XLSXParseError"

\* C7: every header field without an annotation decodes to the descriptor
\* {type VARCHAR(255), not_null False, pk 0}; the worksheet converts when its
\* annotated fields decode and flag one primary key; and the column is emitted
\* as "<name>" VARCHAR(255) without NOT NULL.
C7_DefaultDescriptor ==
  \A k \in 1..sheet_count :
    LET sheet == workbook[k]
        decoded == ReadHeader(sheet)
    IN \A i \in 1..FieldCount(sheet) :
         ~Annotated(sheet.header[i]) =>
           /\ Len(decoded.field_metadata) >= i =>
                decoded.field_metadata[i] =
                  [type |-> PStr("VARCHAR(255)"), not_null |-> PBool(FALSE),
                   pk |-> PInt("0")]
           /\ AllDecode(sheet) /\ Cardinality(PkFields(sheet)) = 1 => Converted(k)
           /\ Converted(k) =>
                Block(sql_script, k)[i + 1] =
                  ColumnLine(sheet.header[i].value.v, TRUE, "VARCHAR(255)", FALSE)

\* a CREATE TABLE block for the table, then at least min_inserts INSERT INTO
\* statements, all of that table
TableBlock(block, title, min_inserts) ==
  \E n \in 1..Len(block) :
    /\ Len(block) >= n + 3 + min_inserts
    /\ block[1] = CreateLine(title)
    /\ \A i \in 2..(n + 1) : block[i].kind = "column"
    /\ block[n + 2].kind = "PRIMARY KEY"
    /\ block[n + 3] = CloseLine
    /\ \A i \in (n + 4)..Len(block) : IsInsert(block[i]) /\ block[i].table = title

ScriptStructure(min_inserts) ==
  output_file.written =>
    LET text == output_file.text
    IN /\ Len(text) >= 2
       /\ text[1] = BeginLine
       /\ text[Len(text)] = CommitLine
       /\ \A i \in 2..(Len(text) - 1) : text[i].kind \notin {"BEGIN TRANSACTION", "COMMIT"}
       /\ Cardinality(CreateAt(text)) = Len(workbook)
       /\ 2 \in CreateAt(text)
       /\ \A k \in 1..Len(workbook) :
            TableBlock(Block(text, k), workbook[k].title, min_inserts)

\* C8 (as stated): the written script is BEGIN TRANSACTION, then for each worksheet
\* in order one CREATE TABLE block followed by one or more INSERT INTO statements
\* of that table, then COMMIT.
C8_OneOrMoreInserts == ScriptStructure(1)

\* C8 (amended): the written script is BEGIN TRANSACTION, then for each worksheet
\* in order one CREATE TABLE block followed by the INSERT INTO statements of that
\* table, none for a table without records, then COMMIT.
C8_ScriptStructure == ScriptStructure(0)

\* C8 witness: a written script of two tables, the first with a record and the
\* second without
C8_Witness ==
  /\ output_file.written
  /\ Len(workbook) = 2
  /\ InsertsOf(Block(output_file.text, 1)) # <<>>
  /\ InsertsOf(Block(output_file.text, 2)) = <<>>

\* ======================================================================
\* Properties of sql_to_xlsx (specification SpecFwd)
\* ======================================================================

FirstChars(name, n) == [i \in 1..(IF Len(name) < n THEN Len(name) ELSE n) |-> name[i]]

\* C6: each table has its own worksheet, asked for under the first 29 characters
\* of the table name; the worksheets have distinct titles; table_names maps the
\* title of each worksheet to the whole name of its table, one entry per table, and
\* that is what the description written at the end holds.
C6_SheetNaming ==
  fpc \in {"loop", "described", "done"} =>
    /\ Len(sheets) <= Len(tables)
    /\ Len(sheet_target_names) = Len(sheets)
    /\ \A i \in 1..Len(sheets) :
         /\ sheet_target_names[i] = FirstChars(tables[i], 29)
         /\ sheets[i].title \in DOMAIN table_names
         /\ table_names[sheets[i].title] = tables[i]
    /\ \A i, j \in 1..Len(sheets) : sheets[i].title = sheets[j].title => i = j
    /\ Cardinality(DOMAIN table_names) = Len(sheets)
    /\ fpc \in {"described", "done"} =>
         /\ Len(sheets) = Len(tables)
         /\ description.table_names = table_names
    /\ fpc = "done" =>
         /\ xlsx_file.description.table_names = table_names
         /\ Len(xlsx_file.sheets) = Len(tables)

\* C6 witness: the file is written and two tables asked for the same title
C6_Witness ==
  /\ fpc = "done"
  /\ \E i, j \in 1..Len(sheets) :
       /\ i # j
       /\ sheet_target_names[i] = sheet_target_names[j]
       /\ Len(tables[i]) = 35

IsInternalName(name) ==
  /\ Len(name) >= Len(InternalPrefix)
  /\ SubSeq(name, 1, Len(InternalPrefix)) = InternalPrefix

\* the names of the user tables of the catalog, in catalog order
RECURSIVE UserTableNames(_)
UserTableNames(catalog) ==
  IF catalog = <<>> THEN <<>>
  ELSE (IF Head(catalog).type = "table" /\ ~IsInternalName(Head(catalog).name)
        THEN <<Head(catalog).name>> ELSE <<>>)
         \o UserTableNames(Tail(catalog))

\* C9: the written workbook has a worksheet and a table_names entry for every user
\* table and for no internal table of the engine, in the engine's order.
C9_UserTablesOnly ==
  fpc = "done" =>
    /\ Len(sheets) = Len(UserTableNames(script.catalog))
    /\ \A i \in 1..Len(sheets) :
         table_names[sheets[i].title] = UserTableNames(script.catalog)[i]

\* C10: a run that has ended, complete or failed, holds no resource open.
C10_NoOpenHandle == fpc \in {"done", "failed"} => handles = {}

\* ======================================================================
\* Properties of sql_to_xlsx followed by xlsx_to_sql.py (specification SpecRT)
\* ======================================================================

\* the columns of a CREATE TABLE block as (name, type, not null)
ColumnsOf(block, n) ==
  [i \in 1..n |-> <<block[i + 1].name, block[i + 1].type, block[i + 1].notnull>>]

\* C1: after both runs the script has, for every table of the original script,
\* the same column definitions in the same order, the same primary key column,
\* and one INSERT per original row with the row's values as strings (NULL as '').
C1_RoundTrip ==
  pc = "done" =>
    /\ Cardinality(CreateAt(output_file.text)) = Len(script.catalog)
    /\ \A k \in 1..Len(script.catalog) :
         LET entry == script.catalog[k]
             n == Len(entry.columns)
             block == Block(output_file.text, k)
             inserts == InsertsOf(block)
             key == CHOOSE i \in 1..n : entry.columns[i].pk # PInt("0")
         IN /\ Len(block) >= n + 3
            /\ ColumnsOf(block, n) =
                 [i \in 1..n |-> <<entry.columns[i].name.v, entry.columns[i].type.v,
                                   entry.columns[i].notnull # PInt("0")>>]
            /\ block[n + 2] = PrimaryKeyLine(entry.columns[key].name.v)
            /\ Len(inserts) = Len(entry.rows)
            /\ \A r \in 1..Len(inserts) :
                 inserts[r].values =
                   [c \in 1..n |-> IF entry.rows[r][c] = None THEN ""
                                   ELSE entry.rows[r][c].v]

====
